---- MODULE Spec2Model ----
(***************************************************************************)
(* A model of queryosity.py: the module-level configuration check, main's  *)
(* pipeline (parse_args, read_query_text, gemini_scholar_search, the sort, *)
(* the output branch) and the three renderers.                             *)
(*                                                                         *)
(* Text is modelled character by character: a Python str is a sequence of  *)
(* one-character strings, so that the regular expression of                *)
(* gemini_scholar_search, str.strip and int are computed as the code       *)
(* computes them.                                                          *)
(***************************************************************************)
EXTENDS Integers, Sequences, FiniteSets, TLC

VARIABLES
    pc,               \* position of the process in the script
    PROJECT_ID,       \* os.getenv("GEMINI_PROJECT_ID"): [isNone, val]
    args,             \* the argparse.Namespace built by parse_args
    query_text,       \* main's query_text
    response,         \* the fragments the collaborator's response is made of
    raw_md,           \* resp.text inside gemini_scholar_search
    entries,          \* the local list `entries` of gemini_scholar_search
    raised,           \* the exception raised inside the try block: [stage, detail]
    extracted,        \* what gemini_scholar_search returned, in returned order
    all_results,      \* the list object named gemini_results and all_results
    out,              \* what the process emitted: [kind, body]
    uncaught,         \* the exception that left main, if any
    log               \* the steps executed so far, in order

vars == <<pc, PROJECT_ID, args, query_text, response, raw_md, entries, raised,
          extracted, all_results, out, uncaught, log>>

(***************************************************************************)
(* Bounds of the model.                                                    *)
(***************************************************************************)
\* the response text is a concatenation of at most MaxFrags fragments
MaxFrags == 2
\* the renderers are applied to sequences of at most MaxRecs records
MaxRecs == 2

(***************************************************************************)
(* Characters and strings.                                                 *)
(***************************************************************************)
NL == "\n"

\* Python's \s and str.strip() whitespace, restricted to the characters used
Whitespace == {" ", NL, "\t"}

\* Python's \d, restricted to the ASCII digits
Digit == {"0", "1", "2", "3", "4", "5", "6", "7", "8", "9"}

DigitVal(c) ==
    CASE c = "0" -> 0 [] c = "1" -> 1 [] c = "2" -> 2 [] c = "3" -> 3
      [] c = "4" -> 4 [] c = "5" -> 5 [] c = "6" -> 6 [] c = "7" -> 7
      [] c = "8" -> 8 [] c = "9" -> 9

\* int(score) for a string of decimal digits
RECURSIVE int(_)
int(s) ==
    IF s = <<>> THEN 0
    ELSE 10 * int(SubSeq(s, 1, Len(s) - 1)) + DigitVal(s[Len(s)])

RECURSIVE lstrip(_)
lstrip(s) ==
    IF s # <<>> /\ s[1] \in Whitespace THEN lstrip(Tail(s)) ELSE s

RECURSIVE rstrip(_)
rstrip(s) ==
    IF s # <<>> /\ s[Len(s)] \in Whitespace
    THEN rstrip(SubSeq(s, 1, Len(s) - 1)) ELSE s

\* str.strip()
strip(s) == rstrip(lstrip(s))

(***************************************************************************)
(* The regular expression of gemini_scholar_search and re's backtracking.  *)
(***************************************************************************)
\* re.DOTALL is passed to re.compile: "." also matches a newline
DOTALL == TRUE

\* every character a text of the model can hold
Alphabet ==
    Whitespace \cup Digit \cup
    {".", "[", "]", "(", ")", "/", ":", "*", "#",
     "R", "A", "G", "E", "a", "b", "c", "e", "h", "i", "l", "m", "n", "o",
     "r", "s", "t", "u", "v", "w", "x"}

\* the characters "." matches
Dot == IF DOTALL THEN Alphabet ELSE Alphabet \ {NL}

One(cls)          == [kind |-> "one", cls |-> cls, min |-> 1, group |-> 0]
Lit(s)            == [kind |-> "lit", cls |-> s, min |-> Len(s), group |-> 0]
Greedy(cls, m, g) == [kind |-> "greedy", cls |-> cls, min |-> m, group |-> g]
Lazy(cls, g)      == [kind |-> "lazy", cls |-> cls, min |-> 0, group |-> g]

RelevanceLabel ==
    <<"*", "*", "R", "e", "l", "e", "v", "a", "n", "c", "e", ":", "*", "*">>
AbstractLabel ==
    <<"*", "*", "A", "b", "s", "t", "r", "a", "c", "t", ":", "*", "*">>

\* \d+\.\s\[(.*?)\]\((.*?)\)\s*\n\*\*Relevance:\*\*\s*(\d+)/10\n
\* \*\*Abstract:\*\*\s*(.*?)\n
pattern ==
    <<Greedy(Digit, 1, 0), Lit(<<".">>), One(Whitespace), Lit(<<"[">>),
      Lazy(Dot, 1), Lit(<<"]", "(">>),
      Lazy(Dot, 2), Lit(<<")">>),
      Greedy(Whitespace, 0, 0), Lit(<<NL>> \o RelevanceLabel),
      Greedy(Whitespace, 0, 0), Greedy(Digit, 1, 3),
      Lit(<<"/", "1", "0", NL>> \o AbstractLabel),
      Greedy(Whitespace, 0, 0), Lazy(Dot, 4), Lit(<<NL>>)>>

NoMatch == [ok |-> FALSE, end |-> 0, groups |-> <<>>]

\* the length of the longest run of characters of cls in text from pos on
RunLen(text, pos, cls) ==
    LET stop == CHOOSE i \in pos..(Len(text) + 1) :
                    /\ i = Len(text) + 1 \/ text[i] \notin cls
                    /\ \A j \in pos..(i - 1) : text[j] \in cls
    IN  stop - pos

\* a group is kept as <<first position, length>> until the match is complete
SetGroup(groups, g, pos, n) ==
    IF g = 0 THEN groups ELSE [groups EXCEPT ![g] = <<pos, n>>]

\* the backtracking match of pattern items k.. at position pos: the first
\* success in the order re tries the alternatives. A greedy item tries the
\* longest repetition first and gives characters back one by one, a lazy item
\* tries the shortest first and takes characters one by one: the first success
\* is the longest, respectively the shortest, repetition the rest matches after.
RECURSIVE MatchFrom(_, _, _, _)
MatchFrom(text, k, pos, groups) ==
    IF k > Len(pattern) THEN [ok |-> TRUE, end |-> pos, groups |-> groups]
    ELSE LET item == pattern[k] IN
         CASE item.kind = "one" ->
                IF pos <= Len(text) /\ text[pos] \in item.cls
                THEN MatchFrom(text, k + 1, pos + 1, groups)
                ELSE NoMatch
           [] item.kind = "lit" ->
                IF /\ pos + item.min - 1 <= Len(text)
                   /\ \A i \in 1..item.min : text[pos + i - 1] = item.cls[i]
                THEN MatchFrom(text, k + 1, pos + item.min, groups)
                ELSE NoMatch
           [] OTHER ->
                LET most == RunLen(text, pos, item.cls)
                    tries ==
                        {[n |-> n,
                          m |-> MatchFrom(text, k + 1, pos + n,
                                          SetGroup(groups, item.group, pos, n))] :
                         n \in item.min..most}
                    good == {t \in tries : t.m.ok}
                IN  IF good = {} THEN NoMatch
                    ELSE IF item.kind = "greedy"
                    THEN (CHOOSE t \in good : \A u \in good : t.n >= u.n).m
                    ELSE (CHOOSE t \in good : \A u \in good : t.n <= u.n).m

NoGroups == <<<<0, 0>>, <<0, 0>>, <<0, 0>>, <<0, 0>>>>

GroupText(text, g) == SubSeq(text, g[1], g[1] + g[2] - 1)

\* pattern.findall(text) from pos on: the groups of the non-overlapping
\* matches, found left to right
RECURSIVE findall(_, _)
findall(text, pos) ==
    LET found == {[p |-> p, m |-> MatchFrom(text, 1, p, NoGroups)] :
                  p \in pos..Len(text)}
        good  == {f \in found : f.m.ok}
    IN  IF good = {} THEN <<>>
        ELSE LET m == (CHOOSE f \in good : \A g \in good : f.p <= g.p).m
             IN  <<[i \in 1..4 |-> GroupText(text, m.groups[i])]>>
                 \o findall(text, m.end)

(***************************************************************************)
(* The response texts the generation collaborator may return: fragments    *)
(* that follow the format the prompt asks for, and fragments that do not.  *)
(***************************************************************************)
\* "<number>. [<Title>](<URL>)\n**Relevance:** <score>/10\n**Abstract:** <text>\n"
Block(number, title, url, score, abstract) ==
    number \o <<".", " ", "[">> \o title \o <<"]", "(">> \o url \o <<")", NL>>
    \o RelevanceLabel \o <<" ">> \o score \o <<"/", "1", "0", NL>>
    \o AbstractLabel \o <<" ">> \o abstract \o <<NL>>

ErrorPrefix ==
    <<"G", "e", "m", "i", "n", "i", " ", "E", "r", "r", "o", "r", ":", " ">>

\* blocks in the requested format: [number, title, url, score, abstract]
Blocks ==
    { [number |-> <<"1">>, title |-> <<"a">>, url |-> <<"u">>,
       score |-> <<"9">>, abstract |-> <<"c">>],
      [number |-> <<"2">>, title |-> <<" ", "b", " ">>, url |-> <<" ", "v", " ">>,
       score |-> <<"7">>, abstract |-> <<"c", " ">>],
      [number |-> <<"2">>, title |-> <<"b">>, url |-> <<"v">>,
       score |-> <<"9">>, abstract |-> <<"c">>],
      [number |-> <<"3">>, title |-> <<>>, url |-> <<>>,
       score |-> <<"1", "0">>, abstract |-> <<>>],
      [number |-> <<"4">>, title |-> <<"e">>, url |-> <<"w">>,
       score |-> <<"1", "5">>, abstract |-> <<"c">>],
      [number |-> <<"1">>, title |-> ErrorPrefix \o <<"x">>, url |-> <<>>,
       score |-> <<"0">>, abstract |-> <<>>] }

BlockText(b) == Block(b.number, b.title, b.url, b.score, b.abstract)

\* fragments that do not follow the format
MissingAbstract ==
    <<"5", ".", " ", "[", "m", "]", "(", "w", ")", NL>>
    \o RelevanceLabel \o <<" ", "8", "/", "1", "0", NL>>
BadScore ==
    <<"5", ".", " ", "[", "m", "]", "(", "w", ")", NL>>
    \o RelevanceLabel \o <<" ", "x", "/", "1", "0", NL>>
    \o AbstractLabel \o <<" ", "e", NL>>
Reordered ==
    <<"5", ".", " ", "[", "m", "]", "(", "w", ")", NL>>
    \o AbstractLabel \o <<" ", "e", NL>>
    \o RelevanceLabel \o <<" ", "8", "/", "1", "0", NL>>
Prose == <<"h", "i", ":", NL>>

Malformed == {MissingAbstract, BadScore, Reordered, Prose}

\* a fragment of a response: its text, and the block it is when it conforms
Fragments ==
    { [conforms |-> TRUE, block |-> b, text |-> BlockText(b)] : b \in Blocks }
    \cup
    { [conforms |-> FALSE, block |-> <<>>, text |-> t] : t \in Malformed }

RECURSIVE FragSeqs(_)
FragSeqs(n) ==
    IF n = 0 THEN {<<>>}
    ELSE FragSeqs(n - 1)
         \cup {Append(fs, f) : fs \in FragSeqs(n - 1), f \in Fragments}

RECURSIVE Concat(_)
Concat(fs) == IF fs = <<>> THEN <<>> ELSE Head(fs).text \o Concat(Tail(fs))

\* the response texts of the model
ResponseFrags == FragSeqs(MaxFrags)

(***************************************************************************)
(* Values.                                                                 *)
(***************************************************************************)
\* an optional str: None, or a str
None   == [isNone |-> TRUE, val |-> <<>>]
Str(s) == [isNone |-> FALSE, val |-> s]

\* Python's truth value of an optional str: `not v` is its negation
Truthy(v) == ~v.isNone /\ v.val # <<>>

\* `not PROJECT_ID`
MissingNoneOnly(v) == v.isNone
Missing(v) == ~Truthy(v)

NoException == [kind |-> "none", stage |-> "none", detail |-> <<>>]
Exc(kind, stage, detail) == [kind |-> kind, stage |-> stage, detail |-> detail]

\* str(exc) of the exceptions the collaborator raises
Details == {<<>>, <<"x">>}

SourceTag == "gemini"

(***************************************************************************)
(* gemini_scholar_search.                                                  *)
(***************************************************************************)
\* the dict appended to entries for one match
Entry(groups) ==
    [title     |-> strip(groups[1]),
     link      |-> strip(groups[2]),
     relevance |-> int(groups[3]),
     abstract  |-> strip(groups[4]),
     source    |-> SourceTag]

\* the entries the loop over the matches has appended after `upto` of them
EntriesOf(found, upto) == [i \in 1..upto |-> Entry(found[i])]

\* the record of the except branch
ErrorRecord(detail) ==
    [title     |-> ErrorPrefix \o detail,
     link      |-> <<>>,
     relevance |-> 0,
     abstract  |-> <<>>,
     source    |-> SourceTag]

\* what the except branch returns, given the entries built so far
ExceptReturnKeepsEntries(built, detail) == Append(built, ErrorRecord(detail))
ExceptReturn(built, detail) == <<ErrorRecord(detail)>>

\* where control goes after model.generate_content and resp.text: into the
\* parsing when they returned, to the caller (through the except branch) when
\* one of them raised
AfterGenerateRetry(failed) == IF failed THEN "call" ELSE "extract"
AfterGenerate(failed) == IF failed THEN "sort" ELSE "extract"

(***************************************************************************)
(* The sort of main.                                                       *)
(***************************************************************************)
\* key=lambda r: r.get("relevance", 0)
SortKey(r) == IF "relevance" \in DOMAIN r THEN r.relevance ELSE 0

\* x put in front of its equals
InsertDescUnstable(sorted, x) ==
    LET before == {i \in 1..Len(sorted) : SortKey(sorted[i]) > SortKey(x)}
        n      == Cardinality(before)
    IN  SubSeq(sorted, 1, n) \o <<x>> \o SubSeq(sorted, n + 1, Len(sorted))

\* x put into a sequence sorted by descending key, behind its equals
InsertDesc(sorted, x) ==
    LET before == {i \in 1..Len(sorted) : SortKey(sorted[i]) >= SortKey(x)}
        n      == Cardinality(before)
    IN  SubSeq(sorted, 1, n) \o <<x>> \o SubSeq(sorted, n + 1, Len(sorted))

\* list.sort(key=..., reverse=True): stable, equal keys keep their order
RECURSIVE SortDesc(_)
SortDesc(seq) ==
    IF seq = <<>> THEN <<>>
    ELSE InsertDesc(SortDesc(SubSeq(seq, 1, Len(seq) - 1)), seq[Len(seq)])

(***************************************************************************)
(* The renderers.  A rendering is kept field by field: what is printed for *)
(* each record, in the order it is printed.                                *)
(***************************************************************************)
DigitChar(d) == CHOOSE c \in Digit : DigitVal(c) = d

\* str(n) of a natural number, as an f-string and csv.writer print it
RECURSIVE str(_)
str(n) ==
    IF n < 10 THEN <<DigitChar(n)>>
    ELSE str(n \div 10) \o <<DigitChar(n % 10)>>

\* dict.get(k, default)
Get(e, k, default) == IF k \in DOMAIN e THEN e[k] ELSE default

\* one block of format_md without the `or '#'` of the link
MdBlockRawLink(idx, e) ==
    LET block == [ordinal   |-> str(idx),
                  title     |-> e.title,
                  link      |-> e.link,
                  relevance |-> str(e.relevance),
                  abstract  |-> e.abstract]
    IN  IF Get(e, "year", <<>>) # <<>>
        THEN block @@ [year |-> Get(e, "year", <<>>)]
        ELSE block

\* one block of format_md: "{idx}. [{title}]({link or '#'})", the Relevance
\* line, the Year line when e.get("year") is truthy, the Abstract line
MdBlock(idx, e) ==
    LET block == [ordinal   |-> str(idx),
                  title     |-> e.title,
                  link      |-> IF e.link # <<>> THEN e.link ELSE <<"#">>,
                  relevance |-> str(e.relevance),
                  abstract  |-> e.abstract]
    IN  IF Get(e, "year", <<>>) # <<>>
        THEN block @@ [year |-> Get(e, "year", <<>>)]
        ELSE block

format_md(es) == [i \in 1..Len(es) |-> MdBlock(i, es[i])]

\* the keys of a record in the order the dict holds them
KeyOrder == <<"title", "link", "relevance", "abstract", "source", "year">>

\* json.dump(entries): per record, its members in order
JsonObject(e) ==
    LET keys == SelectSeq(KeyOrder, LAMBDA k : k \in DOMAIN e)
    IN  [j \in 1..Len(keys) |-> <<keys[j], e[keys[j]]>>]

write_json(es) == [i \in 1..Len(es) |-> JsonObject(es[i])]

fieldnames == <<"title", "link", "relevance", "abstract", "source">>

\* the cell csv.writer writes for row.get(k, ""): the int relevance as str()
CsvCell(e, k) ==
    IF k \notin DOMAIN e THEN <<>>
    ELSE IF k = "relevance" THEN str(e[k]) ELSE e[k]

\* writer.writerow({k: row.get(k, "") for k in fieldnames})
CsvRow(e) == [j \in 1..Len(fieldnames) |-> CsvCell(e, fieldnames[j])]

write_csv(es) ==
    [header |-> fieldnames, rows |-> [i \in 1..Len(es) |-> CsvRow(es[i])]]

\* str.lower() on the letters a path of the model holds
Lower(c) ==
    CASE c = "C" -> "c" [] c = "S" -> "s" [] c = "V" -> "v" [] OTHER -> c

\* os.path.splitext(path)[1].lower() for a path without directory separators
Ext(path) ==
    LET dots == {i \in 2..Len(path) : path[i] = "."}
    IN  IF dots = {} THEN <<>>
        ELSE LET d == CHOOSE i \in dots : \A j \in dots : j <= i
             IN  [i \in 1..(Len(path) - d + 1) |-> Lower(path[d + i - 1])]

NoOutput == [kind |-> "none", body |-> <<>>]

\* what the output branch of main emits for the results
Emit(output, results) ==
    IF Truthy(output)
    THEN CASE Ext(output.val) = <<".", "j", "s", "o", "n">> ->
                [kind |-> "json", body |-> write_json(results)]
           [] Ext(output.val) = <<".", "c", "s", "v">> ->
                [kind |-> "csv", body |-> write_csv(results)]
           [] OTHER ->
                [kind |-> "mdfile", body |-> format_md(results)]
    ELSE [kind |-> "stdout", body |-> format_md(results)]

(***************************************************************************)
(* The environment of a run: the configuration, the command line, the      *)
(* query file, the output file.                                            *)
(***************************************************************************)
\* os.getenv("GEMINI_PROJECT_ID"): unset, set to "", set to a project
ProjectIds == {None, Str(<<>>), Str(<<"p">>)}

CmdLine(query, input_file, sort, output) ==
    [query |-> query, input_file |-> input_file, sort |-> sort,
     output |-> output]

\* the command lines of the model
CommandLines ==
    { CmdLine(Str(<<"q">>), None, "relevance", None),
      CmdLine(Str(<<" ", "q", " ">>), None, "retrieved", None),
      CmdLine(Str(<<"q">>), None, "relevance",
              Str(<<"o", ".", "j", "s", "o", "n">>)),
      CmdLine(Str(<<"q">>), None, "retrieved",
              Str(<<"o", ".", "C", "S", "V">>)),
      CmdLine(None, Str(<<"f">>), "relevance",
              Str(<<"o", ".", "m", "d">>)),
      CmdLine(Str(<<>>), None, "relevance", None),
      CmdLine(None, None, "relevance", None),
      CmdLine(Str(<<"q">>), Str(<<"f">>), "relevance", None) }

\* the mutually exclusive, required group of --query and --input-file
ArgsAccepted(cl) == cl.query.isNone # cl.input_file.isNone

\* the contents of the query file when it can be read
FileContents == {<<" ", "q", NL>>}

NoArgs == CmdLine(None, None, "relevance", None)

(***************************************************************************)
(* The run.                                                                *)
(***************************************************************************)
Init ==
    /\ pc = "config"
    /\ PROJECT_ID \in ProjectIds
    /\ args = NoArgs
    /\ query_text = <<>>
    /\ response = <<>>
    /\ raw_md = <<>>
    /\ entries = <<>>
    /\ raised = NoException
    /\ extracted = <<>>
    /\ all_results = <<>>
    /\ out = NoOutput
    /\ uncaught = NoException
    /\ log = <<>>

\* if not PROJECT_ID: sys.exit("Error: GEMINI_PROJECT_ID missing in .env")
CheckConfig ==
    /\ pc = "config"
    /\ IF Missing(PROJECT_ID)
       THEN /\ pc' = "exit"
            /\ uncaught' = Exc("SystemExit", "config", <<>>)
            /\ log' = Append(log, "sys.exit")
       ELSE /\ pc' = "init"
            /\ uncaught' = uncaught
            /\ log' = log
    /\ UNCHANGED <<PROJECT_ID, args, query_text, response, raw_md, entries,
                   raised, extracted, all_results, out>>

\* vertexai.init(...); model = GenerativeModel(MODEL_ID); asyncio.run(main())
InitVertex ==
    /\ pc = "init"
    /\ pc' = "main"
    /\ log' = log \o <<"vertexai.init", "GenerativeModel">>
    /\ UNCHANGED <<PROJECT_ID, args, query_text, response, raw_md, entries,
                   raised, extracted, all_results, out, uncaught>>

\* args = parse_args(): argparse exits when the group is not satisfied
ParseArgs ==
    /\ pc = "main"
    /\ \E cl \in CommandLines :
          IF ArgsAccepted(cl)
          THEN /\ args' = cl
               /\ pc' = "read"
               /\ uncaught' = uncaught
          ELSE /\ args' = args
               /\ pc' = "exit"
               /\ uncaught' = Exc("SystemExit", "parse_args", <<>>)
    /\ log' = Append(log, "parse_args")
    /\ UNCHANGED <<PROJECT_ID, query_text, response, raw_md, entries,
                   raised, extracted, all_results, out>>

\* query_text = read_query_text(args)
ReadQueryText ==
    /\ pc = "read"
    /\ log' = Append(log, "read_query_text")
    /\ IF Truthy(args.query)
       THEN /\ query_text' = strip(args.query.val)
            /\ pc' = "call"
            /\ uncaught' = uncaught
       ELSE \/ /\ ~args.input_file.isNone
               /\ \E content \in FileContents : query_text' = strip(content)
               /\ pc' = "call"
               /\ uncaught' = uncaught
            \/ \* open() raises: TypeError for None, OSError for the file
               /\ query_text' = query_text
               /\ pc' = "exit"
               /\ uncaught' = Exc("Exception", "read_query_text", <<>>)
    /\ UNCHANGED <<PROJECT_ID, args, response, raw_md, entries, raised,
                   extracted, all_results, out>>

\* resp = model.generate_content(...); raw_md = resp.text -- either raises,
\* and then the except branch returns
GenerateContent ==
    /\ pc = "call"
    /\ log' = Append(log, "generate_content")
    /\ \/ \E fs \in ResponseFrags :
             /\ response' = fs
             /\ raw_md' = Concat(fs)
             /\ pc' = AfterGenerate(FALSE)
             /\ UNCHANGED <<raised, extracted, all_results>>
       \/ \E stage \in {"generate_content", "text"}, detail \in Details :
             /\ raised' = Exc("Exception", stage, detail)
             /\ extracted' = ExceptReturn(entries, detail)
             /\ all_results' = extracted'
             /\ pc' = AfterGenerate(TRUE)
             /\ UNCHANGED <<response, raw_md>>
    /\ UNCHANGED <<PROJECT_ID, args, query_text, entries, out, uncaught>>

\* the findall loop of gemini_scholar_search and its return; an exception in
\* the loop body at match number failAt leaves through the except branch
Extract ==
    /\ pc = "extract"
    /\ log' = Append(log, "findall")
    /\ \E found \in {findall(raw_md, 1)} :
          \/ /\ entries' = EntriesOf(found, Len(found))
             /\ extracted' = entries'
             /\ UNCHANGED raised
          \/ \E failAt \in 1..Len(found), detail \in Details :
                /\ entries' = EntriesOf(found, failAt - 1)
                /\ raised' = Exc("Exception", "parse", detail)
                /\ extracted' = ExceptReturn(entries', detail)
    /\ all_results' = extracted'
    /\ pc' = "sort"
    /\ UNCHANGED <<PROJECT_ID, args, query_text, response, raw_md, out,
                   uncaught>>

\* if args.sort == "relevance": all_results.sort(...)
Sort ==
    /\ pc = "sort"
    /\ IF args.sort = "relevance"
       THEN /\ all_results' = SortDesc(all_results)
            /\ log' = Append(log, "sort")
       ELSE UNCHANGED <<all_results, log>>
    /\ pc' = "output"
    /\ UNCHANGED <<PROJECT_ID, args, query_text, response, raw_md, entries,
                   raised, extracted, out, uncaught>>

\* the output branch of main; opening the output file may raise
Output ==
    /\ pc = "output"
    /\ log' = Append(log, "output")
    /\ pc' = "exit"
    /\ \/ /\ out' = Emit(args.output, all_results)
          /\ UNCHANGED uncaught
       \/ /\ Truthy(args.output)
          /\ uncaught' = Exc("Exception", "output", <<>>)
          /\ UNCHANGED out
    /\ UNCHANGED <<PROJECT_ID, args, query_text, response, raw_md, entries,
                   raised, extracted, all_results>>

Next ==
    \/ CheckConfig
    \/ InitVertex
    \/ ParseArgs
    \/ ReadQueryText
    \/ GenerateContent
    \/ Extract
    \/ Sort
    \/ Output

Spec == Init /\ [][Next]_vars

(***************************************************************************)
(* The renderers on their own: each applied to a sequence of records,      *)
(* with and without the optional year.                                     *)
(***************************************************************************)
RenderRecordsNoYear ==
    { [title |-> <<"a">>, link |-> l, relevance |-> r, abstract |-> <<"c">>,
       source |-> s] :
      l \in {<<>>, <<"u">>}, r \in {7, 10}, s \in {SourceTag, "wos"} }

RenderRecords ==
    RenderRecordsNoYear
    \cup { e @@ [year |-> y] :
           e \in RenderRecordsNoYear, y \in {<<>>, <<"2", "0", "2", "0">>} }

RECURSIVE RecordSeqs(_)
RecordSeqs(n) ==
    IF n = 0 THEN {<<>>}
    ELSE RecordSeqs(n - 1)
         \cup {Append(es, e) : es \in RecordSeqs(n - 1), e \in RenderRecords}

InitRender ==
    /\ pc = "render"
    /\ PROJECT_ID = Str(<<"p">>)
    /\ args = NoArgs
    /\ query_text = <<>>
    /\ response = <<>>
    /\ raw_md = <<>>
    /\ entries = <<>>
    /\ raised = NoException
    /\ extracted \in RecordSeqs(MaxRecs)
    /\ all_results = extracted
    /\ out = NoOutput
    /\ uncaught = NoException
    /\ log = <<>>

Render(kind, body) ==
    /\ pc = "render"
    /\ pc' = "rendered"
    /\ out' = [kind |-> kind, body |-> body]
    /\ log' = Append(log, kind)
    /\ UNCHANGED <<PROJECT_ID, args, query_text, response, raw_md, entries,
                   raised, extracted, all_results, uncaught>>

RenderMd   == Render("md", format_md(all_results))
RenderJson == Render("json", write_json(all_results))
RenderCsv  == Render("csv", write_csv(all_results))

NextRender ==
    \/ RenderMd
    \/ RenderJson
    \/ RenderCsv

SpecRender == InitRender /\ [][NextRender]_vars

(***************************************************************************)
(* Properties.                                                             *)
(***************************************************************************)
\* gemini_scholar_search has returned to main
Returned ==
    pc \in {"sort", "output"}
    \/ (pc = "exit" /\ \E i \in 1..Len(log) : log[i] = "output")

\* gemini_scholar_search has returned without entering its except branch
ReturnedParsed ==
    /\ pc \in {"sort", "output"}
    /\ raised = NoException

\* the record the specification gives a conforming block
RecordOfBlock(b) ==
    [title     |-> strip(b.title),
     link      |-> strip(b.url),
     relevance |-> int(b.score),
     abstract  |-> strip(b.abstract),
     source    |-> "gemini"]

\* the records of the conforming fragments of a response, left to right
ConformingRecords(fs) ==
    LET conforming == SelectSeq(fs, LAMBDA f : f.conforms)
    IN  [i \in 1..Len(conforming) |-> RecordOfBlock(conforming[i].block)]

Count(seq, x) == Cardinality({i \in 1..Len(seq) : seq[i] = x})

Before(seq, x, y) ==
    \A i, j \in 1..Len(seq) : seq[i] = x /\ seq[j] = y => i < j

\* C1: a response made of k conforming blocks interleaved with non-conforming
\* fragments yields exactly the k records of the conforming blocks, in
\* left-to-right order, with nothing of a malformed fragment in them; no
\* conforming block yields the empty sequence.
C1_ConformingBlocksExtracted ==
    ReturnedParsed => extracted = ConformingRecords(response)

\* C2: when the collaborator call, the read of its text or the parsing raises,
\* nothing propagates to the caller and exactly one record is returned:
\* relevance 0, empty link and abstract, source "gemini", the error detail in
\* the title; no record parsed before the failure comes with it.
C2_FailureYieldsOneErrorRecord ==
    /\ uncaught.stage \notin {"generate_content", "text", "parse"}
    /\ raised # NoException =>
          /\ Returned
          /\ Len(extracted) = 1
          /\ extracted[1].relevance = 0
          /\ extracted[1].link = <<>>
          /\ extracted[1].abstract = <<>>
          /\ extracted[1].source = "gemini"
          /\ extracted[1].title = ErrorPrefix \o raised.detail
          /\ DOMAIN extracted[1] =
                {"title", "link", "relevance", "abstract", "source"}

\* a parsing failure after at least one record had been built
C2_Witness ==
    /\ raised.stage = "parse"
    /\ entries # <<>>
    /\ pc = "output"
    /\ Len(extracted) = 1

\* C3: every record gemini_scholar_search returns has a relevance in 0..10.
C3_RelevanceInRange ==
    \A i \in 1..Len(extracted) : extracted[i].relevance \in 0..10

\* C4: relevance 0 is reserved for the error record: a record built from a
\* matched block has relevance at least 1, so what a successful call returns
\* is never the one-record sequence a failure returns.
C4_ZeroReservedForError ==
    ReturnedParsed =>
       /\ \A i \in 1..Len(extracted) : extracted[i].relevance >= 1
       /\ \A d \in Details : extracted # <<ErrorRecord(d)>>

\* C5: every returned record has a non-empty title without leading or
\* trailing whitespace, the error record included.
C5_TitleNonEmptyTrimmed ==
    \A i \in 1..Len(extracted) :
       LET t == extracted[i].title
       IN  /\ t # <<>>
           /\ t[1] \notin Whitespace
           /\ t[Len(t)] \notin Whitespace

\* the records of seq with relevance r, in order
WithRelevance(seq, r) == SelectSeq(seq, LAMBDA e : e.relevance = r)

\* the sort step of main is behind
Sorted == pc = "output" \/ (pc = "exit" /\ Count(log, "output") > 0)

\* C6: in sort mode relevance the sequence handed to the formatter is a
\* permutation of the extracted one with non-increasing relevance in which
\* records of equal relevance keep their extraction order; in sort mode
\* retrieved it is the extracted sequence unchanged.
C6_SortStableDescending ==
    Sorted =>
       IF args.sort = "relevance"
       THEN /\ Len(all_results) = Len(extracted)
            /\ \A i \in 1..(Len(all_results) - 1) :
                  all_results[i].relevance >= all_results[i + 1].relevance
            /\ \A i \in 1..Len(extracted) :
                  WithRelevance(all_results, extracted[i].relevance)
                     = WithRelevance(extracted, extracted[i].relevance)
       ELSE all_results = extracted

\* two different records of equal relevance went through the sort
C6_Witness ==
    /\ pc = "output"
    /\ args.sort = "relevance"
    /\ Len(all_results) = 2
    /\ all_results[1].relevance = all_results[2].relevance
    /\ all_results[1] # all_results[2]

\* C7: a run that got past the configuration check ends with output emitted,
\* whatever happens in the collaborator, reading the query file or writing the
\* output file.
C7_AlwaysOutput ==
    (pc = "exit" /\ uncaught.stage # "config") => out.kind # "none"

\* C8: with GEMINI_PROJECT_ID absent or empty the process ends with a fatal
\* error before the client is initialised and before any argument parsing,
\* collaborator call, extraction, sorting or output.
C8_MissingConfigIsFatalFirst ==
    (PROJECT_ID.isNone \/ PROJECT_ID.val = <<>>) =>
       /\ pc \in {"config", "exit"}
       /\ pc = "exit" => uncaught = Exc("SystemExit", "config", <<>>)
       /\ \A i \in 1..Len(log) : log[i] = "sys.exit"
       /\ out = NoOutput
       /\ extracted = <<>>

\* the fatal exit for a GEMINI_PROJECT_ID set to the empty string
C8_Witness ==
    /\ PROJECT_ID = Str(<<>>)
    /\ pc = "exit"
    /\ log = <<"sys.exit">>

\* field f of record e, as text
AsText(e, f) == IF f = "relevance" THEN str(e[f]) ELSE e[f]

\* rendering number i of the output says field f of record e
Says(i, e, f) ==
    CASE out.kind = "json" ->
           \E j \in 1..Len(out.body[i]) : out.body[i][j] = <<f, e[f]>>
      [] out.kind = "csv" ->
           \E j \in 1..Len(out.body.header) :
              /\ out.body.header[j] = f
              /\ out.body.rows[i][j] = AsText(e, f)
      [] OTHER ->
           /\ f \in DOMAIN out.body[i]
           /\ out.body[i][f] =
                 IF f = "link" /\ e[f] = <<>> THEN <<"#">> ELSE AsText(e, f)

Entries == IF out.kind = "csv" THEN out.body.rows ELSE out.body

\* C9 as stated: each renderer represents every field of every record (the
\* year when present), one entry per record, in order.
C9_EveryFieldRepresented ==
    out.kind # "none" =>
       /\ Len(Entries) = Len(all_results)
       /\ \A i \in 1..Len(all_results) :
             \A f \in DOMAIN all_results[i] : Says(i, all_results[i], f)

\* the fields each renderer prints for record e
Printed(e) ==
    CASE out.kind = "json" -> DOMAIN e
      [] out.kind = "csv"  -> {"title", "link", "relevance", "abstract", "source"}
      [] OTHER ->
           {"title", "link", "relevance", "abstract"}
           \cup (IF "year" \in DOMAIN e /\ e.year # <<>> THEN {"year"} ELSE {})

\* C9 amended: one entry per record, in order, the records left as they were.
\* write_json represents every field; write_csv exactly title, link,
\* relevance, abstract and source (no year); format_md the ordinal, title,
\* link (# for an empty one), relevance, abstract and a truthy year (no
\* source).
C9_RenderersRepresentTheirFields ==
    out.kind # "none" =>
       /\ all_results = extracted
       /\ Len(Entries) = Len(all_results)
       /\ \A i \in 1..Len(all_results) :
             /\ \A f \in Printed(all_results[i]) : Says(i, all_results[i], f)
             /\ out.kind = "json" =>
                   Len(out.body[i]) = Cardinality(DOMAIN all_results[i])
             /\ out.kind = "csv" => Len(out.body.rows[i]) = 5
             /\ out.kind = "md" =>
                   /\ DOMAIN out.body[i] =
                         Printed(all_results[i]) \cup {"ordinal"}
                   /\ out.body[i].ordinal = str(i)

\* format_md printed # for a record whose link is empty, after a record with
\* a year
C9_Witness ==
    /\ out.kind = "md"
    /\ Len(all_results) = 2
    /\ "year" \in DOMAIN out.body[1]
    /\ all_results[2].link = <<>>
    /\ out.body[2].link = <<"#">>

\* C10: the collaborator is called once per search; the call is over before
\* the extraction, the extraction before the sort, the sort before the
\* output; a failed call is not repeated.
C10_OneCallInOrder ==
    /\ Count(log, "generate_content") <= 1
    /\ (Returned \/ pc = "extract") => Count(log, "generate_content") = 1
    /\ out.kind # "none" => Count(log, "generate_content") = 1
    /\ Before(log, "generate_content", "findall")
    /\ Before(log, "generate_content", "sort")
    /\ Before(log, "generate_content", "output")
    /\ Before(log, "findall", "sort")
    /\ Before(log, "findall", "output")
    /\ Before(log, "sort", "output")
    /\ raised.stage \in {"generate_content", "text"} =>
          Count(log, "findall") = 0

\* a run whose call failed went on to its output without a second call
C10_Witness ==
    /\ raised.stage = "generate_content"
    /\ pc = "exit"
    /\ out.kind # "none"
    /\ log = <<"vertexai.init", "GenerativeModel", "parse_args",
               "read_query_text", "generate_content", "sort", "output">>

====
